---------------------------- MODULE Spec2Model ----------------------------
(***************************************************************************)
(* VoiceGuard-API: the analyze request pipeline (app/api/endpoints.py),    *)
(* audio ingestion (app/services/audio_loader.py) and the three-signal     *)
(* scorer (app/services/scorer.py).                                        *)
(*                                                                         *)
(* Real numbers are fixed-point integers: a value v stands for v / SCALE.  *)
(* The fused score carries one more decimal digit (v / (10 * SCALE)), so   *)
(* that round(x, 4) is a genuine rounding step.                            *)
(***************************************************************************)
EXTENDS Integers, Sequences, FiniteSets

(***************************************************************************)
(* Units                                                                   *)
(***************************************************************************)
\* four decimal digits, the precision of round(..., 4) in analyze_voice
SCALE == 10000

ONE == SCALE
HALF == SCALE \div 2

\* the fused score is kept in units of 1 / FSCALE
FSCALE == 10 * SCALE

\* a pitch value p (Hz) stands for p / HZ, a zero-crossing rate or a
\* spectral flatness z for z / SCALE
HZ == SCALE \div 10

(***************************************************************************)
(* Bounds of the input grids                                               *)
(***************************************************************************)
MaxFlatK == 6
MaxPitchK == 9
MaxZcrK == 5
MaxLenK == 4
MaxSizeK == 3

\* the count of joblib.load calls stops at MaxLoads
MaxLoads == 2

(***************************************************************************)
(* Program constants                                                       *)
(***************************************************************************)
THRESHOLD_PITCH_STD_LOW == 20 * HZ
THRESHOLD_ZCR_LOW == (2 * SCALE) \div 100

MAX_AUDIO_DURATION_SEC == 30
TARGET_SAMPLE_RATE == 16000
MAX_FILE_SIZE_BYTES == 10 * 1024 * 1024
CHUNK_SIZE == 8192

API_KEY_SECRET == "hackathon-secret-key-123"

(***************************************************************************)
(* Python values: a float is <<"float", v>>, None is <<"NoneType", 0>>.    *)
(***************************************************************************)
Float(v) == <<"float", v>>
PyNone == <<"NoneType", 0>>
IsFloat(x) == x[1] = "float"
Val(x) == x[2]

\* dict.get(key, default)
DictGet(d, key, default) == IF key \in DOMAIN d THEN d[key] ELSE default

Min(a, b) == IF a <= b THEN a ELSE b
Max(a, b) == IF a >= b THEN a ELSE b

\* the outcome of a call: a returned value or a raised exception
Return(v) == [raised |-> FALSE, value |-> v]
Raise == [raised |-> TRUE, value |-> 0]

(***************************************************************************)
(* scorer.py: IntelligenceEngine                                           *)
(***************************************************************************)
NoModel == "None"
Classifier == "clf"

\* _get_model: the value of cls._model after the call, which is also the
\* value returned.  artifact is what MODEL_PATH holds on disk.
GetModel(cached, artifact) ==
    IF cached = NoModel
    THEN IF artifact = "present" THEN Classifier ELSE NoModel
    ELSE cached

\* _get_model: whether the call reaches joblib.load(MODEL_PATH)
CallsJoblibLoad(cached, artifact) ==
    cached = NoModel /\ artifact \in {"present", "corrupt"}

\* the outcomes of model.predict_proba(vector)[0][1]: a probability, or an
\* exception
PredictFailed == -1

\* a variant of _compute_signal_acoustic whose heuristic reads flatness the
\* wrong way round (flat spectrum = natural)
AcousticInvertedFlatness(features, model, proba) ==
    IF model = NoModel
    THEN LET flatness == DictGet(features, "spectral_flatness", Float(0))
         IN  IF IsFloat(flatness)
             THEN Return(Max(0, ONE - (Val(flatness) * 10)))
             ELSE Raise
    ELSE IF proba = PredictFailed
         THEN Return(HALF)
         ELSE Return(proba)

\* _compute_signal_acoustic
ComputeSignalAcoustic(features, model, proba) ==
    IF model = NoModel
    THEN LET flatness == DictGet(features, "spectral_flatness", Float(0))
         IN  IF IsFloat(flatness)
             THEN Return(Min(ONE, Val(flatness) * 10))
             ELSE Raise
    ELSE IF proba = PredictFailed
         THEN Return(HALF)
         ELSE Return(proba)

\* _compute_signal_temporal
ComputeSignalTemporal(features) ==
    LET pitch_std == DictGet(features, "pitch_std", Float(0))
    IN  IF ~IsFloat(pitch_std) THEN Raise
        ELSE IF Val(pitch_std) <= 0 THEN Return(HALF)
        ELSE Return(Max(0, ONE - ((Val(pitch_std) * SCALE) \div THRESHOLD_PITCH_STD_LOW)))

\* a variant of _compute_signal_imperfection that treats a zero rate as
\* ambiguous, the way _compute_signal_temporal treats a zero deviation
ImperfectionAmbiguousAtZero(features) ==
    LET zcr_mean == DictGet(features, "zcr_mean", Float(0))
    IN  IF ~IsFloat(zcr_mean) THEN Raise
        ELSE IF Val(zcr_mean) <= 0 THEN Return(HALF)
        ELSE Return(Max(0, ONE - ((Val(zcr_mean) * SCALE) \div THRESHOLD_ZCR_LOW)))

\* _compute_signal_imperfection
ComputeSignalImperfection(features) ==
    LET zcr_mean == DictGet(features, "zcr_mean", Float(0))
    IN  IF ~IsFloat(zcr_mean) THEN Raise
        ELSE IF Val(zcr_mean) <= 0 THEN Return(ONE)
        ELSE Return(Max(0, ONE - ((Val(zcr_mean) * SCALE) \div THRESHOLD_ZCR_LOW)))

\* final_score = 0.5 * s_acoustic + 0.3 * s_temporal + 0.2 * s_imperfection,
\* in units of 1 / FSCALE
FinalScore(s_acoustic, s_temporal, s_imperfection) ==
    (5 * s_acoustic) + (3 * s_temporal) + (2 * s_imperfection)

CUTOFF_AI == (65 * FSCALE) \div 100
CUTOFF_LOW == (40 * FSCALE) \div 100

AI == "AI-generated"
Human == "Human-generated"

\* the classification of analyze_voice
Classify(final_score) ==
    IF final_score > CUTOFF_AI THEN AI ELSE Human

\* a variant of the risk banding whose Low band takes its upper boundary in
RiskLevelInclusiveLow(final_score) ==
    IF final_score <= CUTOFF_LOW THEN "Low"
    ELSE IF final_score < CUTOFF_AI THEN "Medium"
    ELSE "High"

\* the risk banding of analyze_voice
RiskLevel(final_score) ==
    IF final_score < CUTOFF_LOW THEN "Low"
    ELSE IF final_score < CUTOFF_AI THEN "Medium"
    ELSE "High"

PhrasePitch == "Unnatural pitch stability (robotic consistency)"
PhraseSilence == "Lack of natural background noise (digital silence)"
PhraseArtifacts == "Acoustic model detected synthetic spectral artifacts"
PhraseCumulative == "Cumulative anomaly score exceeded threshold"
PhraseNatural == "Audio exhibits natural prosody and imperfections"

TRIGGER_TEMPORAL == (6 * SCALE) \div 10
TRIGGER_IMPERFECTION == (6 * SCALE) \div 10
TRIGGER_ACOUSTIC == (7 * SCALE) \div 10

\* the reasons list; "; ".join(reasons) keeps the phrases and their order
Reasons(s_acoustic, s_temporal, s_imperfection, classification) ==
    LET signal_reasons ==
            (IF s_temporal > TRIGGER_TEMPORAL THEN <<PhrasePitch>> ELSE <<>>)
            \o (IF s_imperfection > TRIGGER_IMPERFECTION THEN <<PhraseSilence>> ELSE <<>>)
            \o (IF s_acoustic > TRIGGER_ACOUSTIC THEN <<PhraseArtifacts>> ELSE <<>>)
    IN  IF signal_reasons = <<>> /\ classification = AI
        THEN signal_reasons \o <<PhraseCumulative>>
        ELSE IF classification = Human
             THEN signal_reasons \o <<PhraseNatural>>
             ELSE signal_reasons

\* round(x, 4) of a value in units of 1 / FSCALE: the nearest multiple of
\* 1 / SCALE, ties to even
Round4(x) ==
    LET q == x \div 10
        r == x % 10
    IN  IF r < 5 THEN q
        ELSE IF r > 5 THEN q + 1
        ELSE IF q % 2 = 0 THEN q ELSE q + 1

\* a variant of the confidence that reports the raw score for either label
ConfidenceRawScore(final_score, classification) ==
    Round4(final_score)

\* the confidence of the Verdict
Confidence(final_score, classification) ==
    Round4(IF classification = AI THEN final_score ELSE FSCALE - final_score)

NoVerdict ==
    [classification |-> "", confidence |-> 0, risk_level |-> "",
     language |-> "", explanation |-> <<>>]

NoLocals == [s_acoustic |-> 0, s_temporal |-> 0, s_imperfection |-> 0, final_score |-> 0]

\* analyze_voice: the call's outcome, the Verdict it returns and the values
\* of its local variables at the return.  An exception raised by a signal
\* computation is not caught and leaves the call.
AnalyzeVoice(features, model, proba) ==
    LET a == ComputeSignalAcoustic(features, model, proba)
        t == ComputeSignalTemporal(features)
        i == ComputeSignalImperfection(features)
    IN  IF a.raised \/ t.raised \/ i.raised
        THEN [outcome |-> "raised", verdict |-> NoVerdict, locals |-> NoLocals]
        ELSE LET final_score == FinalScore(a.value, t.value, i.value)
                 classification == Classify(final_score)
             IN  [outcome |-> "returned",
                  verdict |-> [classification |-> classification,
                               confidence |-> Confidence(final_score, classification),
                               risk_level |-> RiskLevel(final_score),
                               language |-> "Detected (Agnostic)",
                               explanation |-> Reasons(a.value, t.value, i.value,
                                                       classification)],
                  locals |-> [s_acoustic |-> a.value, s_temporal |-> t.value,
                              s_imperfection |-> i.value, final_score |-> final_score]]

(***************************************************************************)
(* audio_loader.py                                                         *)
(***************************************************************************)
\* the samples librosa.load returns for a recording of `lead` silent samples
\* followed by `body` sounding samples, capped at duration seconds (0: no cap)
LoadedLen(audio, duration) ==
    IF duration = 0
    THEN audio.lead + audio.body
    ELSE Min(audio.lead + audio.body, duration * TARGET_SAMPLE_RATE)

\* len(librosa.effects.trim(y, top_db=20)[0]): the sounding part of the
\* loaded samples
TrimmedLen(audio, duration) ==
    Max(0, LoadedLen(audio, duration) - audio.lead)

\* 0.5 * sr
MinSamples == TARGET_SAMPLE_RATE \div 2

\* the duration check of load_audio_from_path
TooShort(len_trimmed) == len_trimmed < MinSamples

\* load_audio_from_path: the exception it raises, or the length of y_trimmed
LoadAudioFromPath(blob, audio) ==
    IF ~blob.decodable THEN Raise
    ELSE IF LoadedLen(audio, MAX_AUDIO_DURATION_SEC) = 0 THEN Raise
    ELSE IF TooShort(TrimmedLen(audio, MAX_AUDIO_DURATION_SEC)) THEN Raise
    ELSE Return(TrimmedLen(audio, MAX_AUDIO_DURATION_SEC))

\* the content-length header of the response; -1 when the server sends none
ContentLength(blob) ==
    CASE blob.content_length = "absent" -> -1
      [] blob.content_length = "honest" -> blob.size
      [] OTHER -> 0

\* the content-length check (if provided by server)
HeaderTooLarge(content_length) ==
    content_length # -1 /\ content_length > MAX_FILE_SIZE_BYTES

\* the size check of the download loop
ExceedsLimit(downloaded_size) == downloaded_size > MAX_FILE_SIZE_BYTES

\* downloaded_size after the n-th chunk of response.iter_content(chunk_size=8192)
DownloadedSize(size, n) == Min(n * CHUNK_SIZE, size)

\* the number of chunks of a body of `size` bytes
NumChunks(size) == (size + CHUNK_SIZE - 1) \div CHUNK_SIZE

\* for chunk in response.iter_content(chunk_size=8192): TRUE when some
\* iteration raises "File exceeded size limit during download."
IterContent(size) ==
    \E n \in 1..NumChunks(size) : ExceedsLimit(DownloadedSize(size, n))

(***************************************************************************)
(* Input grids                                                             *)
(***************************************************************************)
\* a caller of analyze_voice may pass a negative number; extract_features
\* never computes one
FlatGrid == {k * 200 : k \in (-1)..MaxFlatK}
PitchGrid == {k * 2468 : k \in (-1)..MaxPitchK}
                \cup {THRESHOLD_PITCH_STD_LOW, 2 * THRESHOLD_PITCH_STD_LOW}
ZcrGrid == {k * 50 : k \in 0..MaxZcrK}
LenGrid == {k * (TARGET_SAMPLE_RATE \div 4) : k \in 0..MaxLenK}
SizeGrid == {k * (4 * 1024 * 1024) : k \in 0..MaxSizeK}
                \cup {MAX_FILE_SIZE_BYTES, MAX_FILE_SIZE_BYTES + 1}
ProbGrid == {(k * SCALE) \div 4 : k \in 0..4}

Keys == {"spectral_flatness", "pitch_std", "zcr_mean"}

FieldValues(key) ==
    CASE key = "spectral_flatness" -> {Float(v) : v \in FlatGrid}
      [] key = "pitch_std" -> {Float(v) : v \in PitchGrid}
      [] OTHER -> {Float(v) : v \in ZcrGrid}

\* every dict a caller can pass to analyze_voice: a key may be absent, and a
\* value may be None
FeatureRecords ==
    UNION {{f \in [D -> {PyNone} \cup UNION {FieldValues(k) : k \in Keys}] :
               \A k \in D : f[k] = PyNone \/ f[k] \in FieldValues(k)} :
           D \in SUBSET Keys}

\* the dicts extract_features returns: every key set, to a float; a
\* standard deviation is never negative
ExtractedFeatures ==
    {f \in FeatureRecords :
        /\ DOMAIN f = Keys
        /\ \A k \in Keys : IsFloat(f[k]) /\ Val(f[k]) >= 0}

NoBlob == [size |-> 0, content_length |-> "absent", net_ok |-> FALSE, decodable |-> FALSE]
NoAudio == [lead |-> 0, body |-> 0]
NoFeatures == [k \in {} |-> PyNone]
NoResult == [outcome |-> "none", verdict |-> NoVerdict, locals |-> NoLocals]
NoRequest == [x_api_key |-> "", audio_url |-> FALSE, audio_base64 |-> "None"]

Blobs ==
    {b \in [size : SizeGrid, content_length : {"absent", "honest", "understated"},
            net_ok : BOOLEAN, decodable : BOOLEAN] :
        b.size = 0 => ~b.decodable}

Audios == [lead : {0, TARGET_SAMPLE_RATE \div 4}, body : LenGrid]

Requests ==
    [x_api_key : {API_KEY_SECRET, "wrong"}, audio_url : BOOLEAN,
     audio_base64 : {"None", "invalid", "valid"}]

\* the second thread: outside _get_model, past the `is None` test, or
\* holding the model its joblib.load returned
WorkerIdle == [at |-> "idle", load |-> 0]

\* the count of joblib.load calls after one more
CountLoad(n) == Min(n + 1, MaxLoads)

(***************************************************************************)
(* State                                                                   *)
(***************************************************************************)
VARIABLES
    pc,         \* the stage the request being served is at
    request,    \* the VoiceRequest and its x-api-key header
    blob,       \* the bytes behind the request
    audio,      \* the recording the bytes encode
    y,          \* the length of the sample array handed to extract_features
    features,   \* the feature dict
    result,     \* the outcome of analyze_voice
    status,     \* the HTTP status of the response, 0 before there is one
    cls_model,  \* IntelligenceEngine._model
    artifact,   \* what is at MODEL_PATH: "absent", "present" or "corrupt"
    loads,      \* how many times joblib.load has been called
    cached_load, \* which call of joblib.load returned the cached model, 0 for none
    worker      \* a second thread of the process inside _get_model

vars ==
    <<pc, request, blob, audio, y, features, result, status, cls_model, artifact,
      loads, cached_load, worker>>

Init ==
    /\ pc = "idle"
    /\ request = NoRequest
    /\ blob = NoBlob
    /\ audio = NoAudio
    /\ y = 0
    /\ features = NoFeatures
    /\ result = NoResult
    /\ status = 0
    /\ cls_model = NoModel
    /\ artifact \in {"absent", "present", "corrupt"}
    /\ loads = 0
    /\ cached_load = 0
    /\ worker = WorkerIdle

(***************************************************************************)
(* Responses                                                               *)
(***************************************************************************)
\* the handler ends with an HTTP status and no Verdict
Fail(code) ==
    /\ pc' = "done"
    /\ status' = code
    /\ blob' = NoBlob
    /\ y' = 0
    /\ UNCHANGED <<request, audio, features, result, cls_model, artifact, loads, cached_load, worker>>

\* the status the except clauses of analyze_audio_endpoint give an exception
\* raised in its try block: AudioProcessingError 400, FeatureExtractionError
\* 422, any other Exception (an HTTPException raised in the block included)
\* 500
HandlerStatus(exception) ==
    CASE exception = "AudioProcessingError" -> 400
      [] exception = "FeatureExtractionError" -> 422
      [] OTHER -> 500

(***************************************************************************)
(* POST /api/v1/analyze                                                    *)
(***************************************************************************)
\* a request arrives: its header, its body and the bytes behind it
ReceiveRequest ==
    /\ pc = "idle"
    /\ \E r \in Requests, b \in Blobs, a \in Audios :
          /\ request' = r
          /\ IF r.audio_base64 = "valid"
             THEN /\ b.content_length = "absent" /\ b.net_ok
                  /\ blob' = b
                  /\ audio' = IF b.decodable THEN a ELSE NoAudio
             ELSE IF r.audio_base64 = "None" /\ r.audio_url
             THEN /\ blob' = b
                  /\ audio' = IF b.decodable THEN a ELSE NoAudio
             ELSE /\ blob' = NoBlob
                  /\ audio' = NoAudio
    /\ pc' = "auth"
    /\ UNCHANGED <<y, features, result, status, cls_model, artifact, loads, cached_load, worker>>

\* verify_api_key
VerifyApiKey ==
    /\ pc = "auth"
    /\ IF request.x_api_key # API_KEY_SECRET
       THEN Fail(401)
       ELSE /\ pc' = "handler"
            /\ UNCHANGED <<request, blob, audio, y, features, result, status,
                           cls_model, artifact, loads, cached_load, worker>>

\* analyze_audio_endpoint, Step 1: which input the handler takes
Dispatch ==
    /\ pc = "handler"
    /\ IF request.audio_base64 = "invalid"
       THEN \* b64decode raises; the HTTPException(400) raised in its place is
            \* raised inside the handler's try block
            Fail(HandlerStatus("HTTPException"))
       ELSE IF request.audio_base64 = "valid"
       THEN /\ pc' = "load_b64"
            /\ UNCHANGED <<request, blob, audio, y, features, result, status,
                           cls_model, artifact, loads, cached_load, worker>>
       ELSE IF request.audio_url
       THEN /\ pc' = "download"
            /\ UNCHANGED <<request, blob, audio, y, features, result, status,
                           cls_model, artifact, loads, cached_load, worker>>
       ELSE Fail(HandlerStatus("HTTPException"))

\* analyze_audio_endpoint, the base64 branch: librosa.load of the decoded
\* bytes, with no duration cap, no trimming and no checks
LoadBase64 ==
    /\ pc = "load_b64"
    /\ IF ~blob.decodable
       THEN Fail(HandlerStatus("HTTPException"))
       ELSE /\ y' = LoadedLen(audio, 0)
            /\ blob' = NoBlob
            /\ pc' = "extract"
            /\ UNCHANGED <<request, audio, features, result, status, cls_model, artifact, loads, cached_load, worker>>

\* download_and_load_audio, Step 1: the download into a temporary file
\* (str(request.audio_url) starts with a scheme and names no local file, so
\* the os.path.exists(source) shortcut is not taken)
Download ==
    /\ pc = "download"
    /\ IF ~blob.net_ok
       THEN Fail(HandlerStatus("AudioProcessingError"))
       ELSE IF HeaderTooLarge(ContentLength(blob))
       THEN Fail(HandlerStatus("AudioProcessingError"))
       ELSE IF IterContent(blob.size)
       THEN Fail(HandlerStatus("AudioProcessingError"))
       ELSE /\ pc' = "load_path"
            /\ UNCHANGED <<request, blob, audio, y, features, result, status,
                           cls_model, artifact, loads, cached_load, worker>>

\* download_and_load_audio: return load_audio_from_path(temp_path)
LoadPath ==
    /\ pc = "load_path"
    /\ LET loaded == LoadAudioFromPath(blob, audio)
       IN  IF loaded.raised
           THEN Fail(HandlerStatus("AudioProcessingError"))
           ELSE /\ y' = loaded.value
                /\ blob' = NoBlob
                /\ pc' = "extract"
                /\ UNCHANGED <<request, audio, features, result, status,
                               cls_model, artifact, loads, cached_load, worker>>

\* analyze_audio_endpoint, Step 2: extract_features(y, sr); what it computes
\* from the samples is left open, and so is whether librosa fails on them
ExtractFeatures ==
    /\ pc = "extract"
    /\ \/ /\ y > 0
          /\ \E f \in ExtractedFeatures : features' = f
          /\ pc' = "score"
          /\ UNCHANGED <<request, blob, audio, y, result, status, cls_model, artifact, loads, cached_load, worker>>
       \/ Fail(HandlerStatus("FeatureExtractionError"))

\* _get_model run in one piece by the thread serving the request: what it
\* does to the count of loads and to which load's model is cached
GetModelEffect ==
    /\ loads' = IF CallsJoblibLoad(cls_model, artifact) THEN CountLoad(loads) ELSE loads
    /\ cached_load' = IF cls_model = NoModel /\ artifact = "present"
                      THEN CountLoad(loads) ELSE cached_load

\* analyze_audio_endpoint, Step 3: IntelligenceEngine.analyze_voice(features)
\* and the response
Score ==
    /\ pc = "score"
    /\ LET model == GetModel(cls_model, artifact)
       IN  /\ cls_model' = model
           /\ \E proba \in (IF model = NoModel THEN {PredictFailed}
                            ELSE ProbGrid \cup {PredictFailed}) :
                 result' = AnalyzeVoice(features, model, proba)
    /\ GetModelEffect
    /\ status' = IF result'.outcome = "returned" THEN 200 ELSE HandlerStatus("Exception")
    /\ pc' = "done"
    /\ UNCHANGED <<request, blob, audio, y, features, artifact, worker>>

\* a direct call of IntelligenceEngine.analyze_voice with any feature dict
CallAnalyzeVoice ==
    /\ pc = "idle"
    /\ \E f \in FeatureRecords : features' = f
    /\ LET model == GetModel(cls_model, artifact)
       IN  /\ cls_model' = model
           /\ \E proba \in (IF model = NoModel THEN {PredictFailed}
                            ELSE ProbGrid \cup {PredictFailed}) :
                 result' = AnalyzeVoice(features', model, proba)
    /\ GetModelEffect
    /\ pc' = "called"
    /\ UNCHANGED <<request, blob, audio, y, status, artifact, worker>>

\* the response is sent, or the call has returned: the next one starts afresh
Finish ==
    /\ pc \in {"done", "called"}
    /\ pc' = "idle"
    /\ request' = NoRequest
    /\ blob' = NoBlob
    /\ audio' = NoAudio
    /\ y' = 0
    /\ features' = NoFeatures
    /\ result' = NoResult
    /\ status' = 0
    /\ UNCHANGED <<cls_model, artifact, loads, cached_load, worker>>

\* _get_model in the second thread: `if cls._model is None` finds None
WorkerCheck ==
    /\ worker.at = "idle"
    /\ cls_model = NoModel
    /\ worker' = [at |-> "checked", load |-> 0]
    /\ UNCHANGED <<pc, request, blob, audio, y, features, result, status,
                   cls_model, artifact, loads, cached_load>>

\* _get_model in the second thread: os.path.exists and joblib.load; without
\* a loadable artifact the thread assigns None and returns
WorkerLoad ==
    /\ worker.at = "checked"
    /\ loads' = IF artifact \in {"present", "corrupt"} THEN CountLoad(loads) ELSE loads
    /\ IF artifact = "present"
       THEN /\ worker' = [at |-> "loaded", load |-> loads']
            /\ UNCHANGED <<cls_model, cached_load>>
       ELSE /\ worker' = WorkerIdle
            /\ cls_model' = NoModel
            /\ cached_load' = 0
    /\ UNCHANGED <<pc, request, blob, audio, y, features, result, status, artifact>>

\* _get_model in the second thread: cls._model = <the model it loaded>
WorkerStore ==
    /\ worker.at = "loaded"
    /\ cls_model' = Classifier
    /\ cached_load' = worker.load
    /\ worker' = WorkerIdle
    /\ UNCHANGED <<pc, request, blob, audio, y, features, result, status,
                   artifact, loads>>

Next ==
    \/ ReceiveRequest
    \/ VerifyApiKey
    \/ Dispatch
    \/ LoadBase64
    \/ Download
    \/ LoadPath
    \/ ExtractFeatures
    \/ Score
    \/ CallAnalyzeVoice
    \/ Finish
    \/ WorkerCheck
    \/ WorkerLoad
    \/ WorkerStore

Spec == Init /\ [][Next]_vars

(***************************************************************************)
(* Properties                                                              *)
(***************************************************************************)
Returned == result.outcome = "returned"

\* the value a key of the feature dict holds, when it holds a float
HasFloat(key) == key \in DOMAIN features /\ IsFloat(features[key])

\* the temporal signal of a pitch standard deviation
TemporalOf(pitch_std) ==
    ComputeSignalTemporal([k \in {"pitch_std"} |-> Float(pitch_std)]).value

\* the imperfection signal of a zero-crossing-rate mean
ImperfectionOf(zcr_mean) ==
    ComputeSignalImperfection([k \in {"zcr_mean"} |-> Float(zcr_mean)]).value

Abs(x) == IF x < 0 THEN -x ELSE x

\* C1: a call of analyze_voice never raises; on a record with a malformed
\* field it returns the fallback Verdict (Human-generated, confidence 0.5,
\* risk Low).
C1_FusionNeverRaises ==
    result.outcome # "none" =>
        /\ Returned
        /\ (\E k \in {"pitch_std", "zcr_mean"} : k \in DOMAIN features /\ ~IsFloat(features[k]))
              => /\ result.verdict.classification = Human
                 /\ result.verdict.confidence = HALF
                 /\ result.verdict.risk_level = "Low"

\* C2: the classification is AI-generated exactly when the fused score is at
\* least 0.65.
C2_ClassificationCutoff ==
    Returned =>
        (result.verdict.classification = AI <=> result.locals.final_score >= CUTOFF_AI)

\* C3: the confidence is the fused score when the label is AI-generated and
\* one minus the score when it is Human-generated, to within half a unit of
\* the fourth decimal.
C3_ConfidenceMeasuresLabel ==
    Returned =>
        LET s == result.locals.final_score
            c == 10 * result.verdict.confidence
        IN  /\ result.verdict.classification = AI => Abs(c - s) <= 5
            /\ result.verdict.classification = Human => Abs(c - (FSCALE - s)) <= 5
            /\ result.verdict.classification \in {AI, Human}

\* C3 witness: a Human-generated Verdict whose score is far from 0.5 and
\* needed rounding.
C3_Witness ==
    /\ Returned
    /\ result.verdict.classification = Human
    /\ result.locals.final_score % 10 # 0
    /\ result.locals.final_score < CUTOFF_LOW

\* C4: risk_level is Low below 0.4, Medium from 0.4 up to but not including
\* 0.65, High from 0.65 on; every score has exactly one band.
C4_RiskBands ==
    Returned =>
        LET s == result.locals.final_score
            r == result.verdict.risk_level
        IN  /\ r = "Low" <=> s < CUTOFF_LOW
            /\ r = "Medium" <=> (CUTOFF_LOW <= s /\ s < CUTOFF_AI)
            /\ r = "High" <=> s >= CUTOFF_AI
            /\ r \in {"Low", "Medium", "High"}

\* C4 witness: a score exactly on the lower boundary, banded Medium.
C4_Witness ==
    /\ Returned
    /\ result.locals.final_score = CUTOFF_LOW
    /\ result.verdict.risk_level = "Medium"

\* C5: the temporal signal is 1.0 at a pitch standard deviation of 0,
\* non-increasing up to T_pitch and 0 from T_pitch on.
C5_TemporalSignal ==
    (Returned /\ HasFloat("pitch_std") /\ Val(features["pitch_std"]) >= 0) =>
        LET p == Val(features["pitch_std"])
            t == result.locals.s_temporal
        IN  /\ p = 0 => t = ONE
            /\ p >= THRESHOLD_PITCH_STD_LOW => t = 0
            /\ \A q \in PitchGrid : (p <= q /\ q <= THRESHOLD_PITCH_STD_LOW) => t >= TemporalOf(q)

\* C6: the imperfection signal is 1.0 at a zero-crossing-rate mean of 0,
\* non-increasing up to T_zcr and 0 from T_zcr on.
C6_ImperfectionSignal ==
    (Returned /\ HasFloat("zcr_mean") /\ Val(features["zcr_mean"]) >= 0) =>
        LET z == Val(features["zcr_mean"])
            i == result.locals.s_imperfection
        IN  /\ z = 0 => i = ONE
            /\ z >= THRESHOLD_ZCR_LOW => i = 0
            /\ \A z2 \in ZcrGrid : (z <= z2 /\ z2 <= THRESHOLD_ZCR_LOW) => i >= ImperfectionOf(z2)

\* C6 witness: a rate strictly inside (0, T_zcr), scored strictly inside (0, 1).
C6_Witness ==
    /\ Returned
    /\ HasFloat("zcr_mean")
    /\ 0 < Val(features["zcr_mean"]) /\ Val(features["zcr_mean"]) < THRESHOLD_ZCR_LOW
    /\ 0 < result.locals.s_imperfection /\ result.locals.s_imperfection < ONE

\* C7: a Human-generated Verdict's explanation is the naturalness phrase and
\* nothing else.
C7_HumanExplanationGeneric ==
    (Returned /\ result.verdict.classification = Human) =>
        result.verdict.explanation = <<PhraseNatural>>

\* Scenario A: no classifier, and a record with pitch standard deviation 0,
\* spectral flatness 0 and zero-crossing-rate mean 0 has been scored
ScenarioA ==
    /\ Returned
    /\ artifact = "absent"
    /\ cls_model = NoModel
    /\ DOMAIN features = Keys
    /\ \A k \in Keys : features[k] = Float(0)

\* C8 as stated: Scenario A is classified AI-generated with risk High.
C8_ScenarioAIsAI ==
    ScenarioA =>
        /\ result.verdict.classification = AI
        /\ result.verdict.risk_level = "High"

\* C8 as amended: Scenario A is classified Human-generated, with a risk
\* below High.
C8_ScenarioAIsHuman ==
    ScenarioA =>
        /\ result.verdict.classification = Human
        /\ result.verdict.risk_level \in {"Low", "Medium"}

\* C8 witness: Scenario A has been scored.
C8_Witness == ScenarioA /\ result.locals.s_acoustic = 0

\* C9: audio shorter than 0.5 s after trimming never reaches feature
\* extraction and never gets a Verdict, whichever way it came in.
C9_ShortAudioRejected ==
    (pc \in {"extract", "score"} \/ (pc = "done" /\ Returned)) =>
        ~TooShort(TrimmedLen(audio, MAX_AUDIO_DURATION_SEC))

\* C10: no run reaches the decode of the audio with a blob over the size
\* ceiling.
C10_OversizeNeverDecoded ==
    pc \in {"load_path", "load_b64"} => blob.size <= MAX_FILE_SIZE_BYTES

C12_WrongKeyIs403 ==
    (request # NoRequest /\ request.x_api_key # API_KEY_SECRET) =>
        /\ pc \in {"auth", "done"}
        /\ pc = "done" => (status = 403 /\ result = NoResult)

\* C13: joblib.load runs at most once in a process, and the model cached is
\* the one that load returned: it is never replaced by a later load's.
C13_LoadedAtMostOnce ==
    /\ loads <= 1
    /\ cached_load <= 1

\* C14: the statuses the handler chooses itself reach the client: 400 for
\* an audio_base64 that cannot be decoded, 422 for a request with neither
\* audio_url nor audio_base64.
C14_DeliberateStatusKept ==
    (pc = "done" /\ request.x_api_key = API_KEY_SECRET) =>
        /\ request.audio_base64 = "invalid" => status = 400
        /\ (request.audio_base64 = "None" /\ ~request.audio_url) => status = 422

=============================================================================
